---- MODULE Spec2Model ----
(***************************************************************************)
(* Model of the bytes-lit literal encoders:                                *)
(*   bytes     (src/src/bytes.rs)     exact-width encoder                  *)
(*   bytes2    (src/src/lib.rs)       exact-width encoder behind bytes!    *)
(*   bytesmin  (src/src/bytesmin.rs)  minimal-width, hex/binary only       *)
(* A literal token is a sequence of one-character strings.  Each encoder   *)
(* is a pure function of the token text; one action applies each of them   *)
(* to an input drawn in Init from a bounded set of integer literals.       *)
(***************************************************************************)
EXTENDS Integers, Sequences, FiniteSets, TLC

VARIABLES lit, called, out

vars == <<lit, called, out>>

(***************************************************************************)
(* Bounds of the input domain: the longest digit body per base.            *)
(***************************************************************************)
MaxHexDigits == 4
MaxBinDigits == 9
MaxOctDigits == 3
MaxDecDigits == 3

(***************************************************************************)
(* Characters.                                                             *)
(***************************************************************************)
HexChars == <<"0", "1", "2", "3", "4", "5", "6", "7", "8", "9",
              "a", "b", "c", "d", "e", "f">>

DecimalDigitChars == {HexChars[i] : i \in 1..10}

HexLetterChars == {HexChars[i] : i \in 11..16}

Letters == {"a", "b", "c", "d", "e", "f", "g", "h", "i", "j", "k", "l", "m",
            "n", "o", "p", "q", "r", "s", "t", "u", "v", "w", "x", "y", "z"}

DigitValue(c) == (CHOOSE i \in 1..16 : HexChars[i] = c) - 1

(***************************************************************************)
(* The input domain: integer literal tokens as the Rust lexer forms them.  *)
(* A literal is described by its lexical structure; Render gives the token *)
(* text the encoders receive (LitInt::to_string()).                        *)
(***************************************************************************)
Forms == {"hex", "binary", "octal", "decimal"}

Radix(form) ==
    CASE form = "hex" -> 16
      [] form = "binary" -> 2
      [] form = "octal" -> 8
      [] OTHER -> 10

Prefix(form) ==
    CASE form = "hex" -> <<"0", "x">>
      [] form = "binary" -> <<"0", "b">>
      [] form = "octal" -> <<"0", "o">>
      [] OTHER -> <<>>

DigitAlphabet(form) ==
    CASE form = "hex" -> {"0", "1", "f"}
      [] form = "binary" -> {"0", "1"}
      [] form = "octal" -> {"0", "3", "4", "7"}
      [] OTHER -> {"0", "2", "5", "6"}

MaxDigits(form) ==
    CASE form = "hex" -> MaxHexDigits
      [] form = "binary" -> MaxBinDigits
      [] form = "octal" -> MaxOctDigits
      [] OTHER -> MaxDecDigits

SeqsUpTo(S, n) == UNION {[1..k -> S] : k \in 1..n}

\* Placements of the `_` digit separators.
SepPatterns == {"none", "afterPrefix", "afterFirst", "between"}

\* Type suffixes: none, a Rust integer type, and identifiers that start
\* with a base-prefix letter.
Suffixes == {<<>>, <<"u", "8">>, <<"x", "1">>, <<"o", "0">>}

RECURSIVE Interleave(_)
Interleave(ds) ==
    IF Len(ds) <= 1 THEN ds
    ELSE <<Head(ds), "_">> \o Interleave(Tail(ds))

Body(ds, sep) ==
    CASE sep = "afterPrefix" -> <<"_">> \o ds
      [] sep = "afterFirst" -> <<Head(ds), "_">> \o Tail(ds)
      [] sep = "between" -> Interleave(ds)
      [] OTHER -> ds

Render(l) ==
    (IF l.neg THEN <<"-">> ELSE <<>>) \o Prefix(l.form)
        \o Body(l.digits, l.sep) \o l.suffix

\* What the lexer does not produce as a literal of that form: a decimal
\* body opening with `_` (an identifier), and a lone decimal 0 directly
\* followed by x/o/b (that is a base prefix).
Lexical(l) ==
    /\ ~(l.form = "decimal" /\ l.sep = "afterPrefix")
    /\ ~(/\ l.form = "decimal"
         /\ l.digits = <<"0">>
         /\ l.sep # "afterFirst"
         /\ l.suffix # <<>>
         /\ Head(l.suffix) \in {"x", "o", "b"})

Literals ==
    {l \in UNION {[neg : BOOLEAN, form : {f},
                   digits : SeqsUpTo(DigitAlphabet(f), MaxDigits(f)),
                   sep : SepPatterns, suffix : Suffixes] : f \in Forms} :
        Lexical(l)}

(***************************************************************************)
(* syn::parse2::<LitInt>: the token is split into a sign, a radix, the     *)
(* value of its digits and a suffix.  `repr` is the token text, a leading  *)
(* `-` included.  The result keeps the value as LitInt does: as the        *)
(* decimal digit string base10_digits() returns.                           *)
(***************************************************************************)
RECURSIVE ToDecimalString(_)
ToDecimalString(n) ==
    IF n < 10 THEN <<HexChars[n + 1]>>
    ELSE Append(ToDecimalString(n \div 10), HexChars[(n % 10) + 1])

XidOk(s) ==
    /\ s # <<>>
    /\ Head(s) \in Letters \cup {"_"}
    /\ \A i \in 2..Len(s) : s[i] \in Letters \cup DecimalDigitChars \cup {"_"}

\* The digit loop of the literal parser: [ok, value, has_digit, rest].
RECURSIVE ScanDigits(_, _, _, _)
ScanDigits(s, base, value, has_digit) ==
    IF s = <<>>
    THEN [ok |-> TRUE, value |-> value, has_digit |-> has_digit, rest |-> s]
    ELSE LET b == Head(s) IN
         IF b = "_" THEN ScanDigits(Tail(s), base, value, has_digit)
         ELSE IF b \in DecimalDigitChars \/ (b \in HexLetterChars /\ base > 10)
         THEN IF DigitValue(b) >= base
              THEN [ok |-> FALSE, value |-> 0, has_digit |-> has_digit,
                    rest |-> s]
              ELSE ScanDigits(Tail(s), base, value * base + DigitValue(b), TRUE)
         ELSE [ok |-> TRUE, value |-> value, has_digit |-> has_digit,
               rest |-> s]

NoLit == [ok |-> FALSE, base10 |-> <<>>, suffix |-> <<>>]

ParseLitInt(repr) ==
    LET negative == repr # <<>> /\ Head(repr) = "-"
        s0 == IF negative THEN Tail(repr) ELSE repr
        b0 == IF Len(s0) >= 1 THEN s0[1] ELSE ""
        b1 == IF Len(s0) >= 2 THEN s0[2] ELSE ""
        base == CASE b0 = "0" /\ b1 = "x" -> 16
                  [] b0 = "0" /\ b1 = "o" -> 8
                  [] b0 = "0" /\ b1 = "b" -> 2
                  [] b0 \in DecimalDigitChars -> 10
                  [] OTHER -> 0
        s1 == IF base \in {16, 8, 2} THEN SubSeq(s0, 3, Len(s0)) ELSE s0
        r == ScanDigits(s1, base, 0, FALSE)
    IN  IF base = 0 \/ ~r.ok \/ ~r.has_digit THEN NoLit
        ELSE IF r.rest # <<>> /\ ~XidOk(r.rest) THEN NoLit
        ELSE [ok |-> TRUE,
              base10 |-> (IF negative THEN <<"-">> ELSE <<>>)
                             \o ToDecimalString(r.value),
              suffix |-> r.rest]

(***************************************************************************)
(* num_bigint::BigUint as the encoders use it.                             *)
(***************************************************************************)
RECURSIVE DecimalValue(_, _)
DecimalValue(s, acc) ==
    IF s = <<>> THEN acc
    ELSE DecimalValue(Tail(s), acc * 10 + DigitValue(Head(s)))

\* BigUint::from_str: an error for anything but decimal digits, so for the
\* `-` of a negative literal.
BigUintFromStr(s) ==
    IF s = <<>> \/ \E i \in 1..Len(s) : s[i] \notin DecimalDigitChars
    THEN [ok |-> FALSE, int |-> 0]
    ELSE [ok |-> TRUE, int |-> DecimalValue(s, 0)]

\* BigUint::bits: the bit length, 0 for zero.
RECURSIVE bits(_)
bits(n) == IF n = 0 THEN 0 ELSE 1 + bits(n \div 2)

RECURSIVE BytesBE(_)
BytesBE(n) == IF n = 0 THEN <<>> ELSE Append(BytesBE(n \div 256), n % 256)

ZeroFree_to_bytes_be(n) == BytesBE(n)

\* BigUint::to_bytes_be: big-endian, no leading zero byte, [0] for zero.
to_bytes_be(n) == IF n = 0 THEN <<0>> ELSE BytesBE(n)

(***************************************************************************)
(* Outcomes of an encoder call: the byte array, a compile error carrying   *)
(* its message, or a panic (a failed expect or slice index).               *)
(***************************************************************************)
Ok(bs) == [kind |-> "ok", bytes |-> bs, msg |-> <<>>]

Err(m) == [kind |-> "err", bytes |-> <<>>, msg |-> m]

Panic(m) == [kind |-> "panic", bytes |-> <<>>, msg |-> m]

NotAnInteger == <<"expected integer literal">>

NegativeUnsupported == <<"negative values unsupported">>

LeadingZerosUnsupported(form) ==
    <<"leading zeros are not preserved or supported on integer literals in ",
      form, " form">>

UnsupportedForm ==
    <<"only positive hex (0x) and binary (0b) integer literals are supported">>

(***************************************************************************)
(* The steps the exact-width encoders share (bytes.rs and lib.rs hold the  *)
(* same text for them).                                                    *)
(***************************************************************************)
\* str::replace(chars, ""): every occurrence of a character of cs removed.
RECURSIVE replace(_, _)
replace(s, cs) ==
    IF s = <<>> THEN <<>>
    ELSE IF Head(s) \in cs THEN replace(Tail(s), cs)
    ELSE <<Head(s)>> \o replace(Tail(s), cs)

HexAsBytes_form_of(normalized) ==
    LET b0 == IF Len(normalized) >= 1 THEN normalized[1] ELSE ""
        b1 == IF Len(normalized) >= 2 THEN normalized[2] ELSE ""
        r == SubSeq(normalized, 3, Len(normalized))
    IN  CASE b0 = "0" /\ b1 = "x" ->
               [form |-> "hex", some |-> TRUE, bits |-> 8, remainder |-> r]
          [] b0 = "0" /\ b1 = "b" ->
               [form |-> "binary", some |-> TRUE, bits |-> 1, remainder |-> r]
          [] b0 = "0" /\ b1 = "o" ->
               [form |-> "octal", some |-> FALSE, bits |-> 0, remainder |-> r]
          [] OTHER ->
               [form |-> "decimal", some |-> FALSE, bits |-> 0,
                remainder |-> normalized]

\* The match on the first two bytes of the normalized text:
\* (form, bits_per_zero_digit, remainder); `some` tells Some(bits) from None.
form_of(normalized) ==
    LET b0 == IF Len(normalized) >= 1 THEN normalized[1] ELSE ""
        b1 == IF Len(normalized) >= 2 THEN normalized[2] ELSE ""
        r == SubSeq(normalized, 3, Len(normalized))
    IN  CASE b0 = "0" /\ b1 = "x" ->
               [form |-> "hex", some |-> TRUE, bits |-> 4, remainder |-> r]
          [] b0 = "0" /\ b1 = "b" ->
               [form |-> "binary", some |-> TRUE, bits |-> 1, remainder |-> r]
          [] b0 = "0" /\ b1 = "o" ->
               [form |-> "octal", some |-> FALSE, bits |-> 0, remainder |-> r]
          [] OTHER ->
               [form |-> "decimal", some |-> FALSE, bits |-> 0,
                remainder |-> normalized]

RECURSIVE AllZeros_leading_zero_count(_)
AllZeros_leading_zero_count(remainder) ==
    IF remainder = <<>> THEN 0
    ELSE (IF Head(remainder) = "0" THEN 1 ELSE 0)
             + AllZeros_leading_zero_count(Tail(remainder))

\* remainder.iter().take_while(|d| **d == b'0').count()
RECURSIVE leading_zero_count(_)
leading_zero_count(remainder) ==
    IF remainder = <<>> \/ Head(remainder) # "0" THEN 0
    ELSE 1 + leading_zero_count(Tail(remainder))

\* The leading zero bits, or the refusal of leading zeros where the form
\* has no bits per digit.  (checked_mul cannot overflow a usize for a
\* literal that fits in memory.)
leading_zero_bits(f) ==
    IF f.some
    THEN [ok |-> TRUE, bits |-> leading_zero_count(f.remainder) * f.bits]
    ELSE IF leading_zero_count(f.remainder) > 0
    THEN [ok |-> FALSE, bits |-> 0]
    ELSE [ok |-> TRUE, bits |-> 0]

Floor_total_len(total_bits) == total_bits \div 8

\* (total_bits.checked_add(7)) / 8
total_len(total_bits) == (total_bits + 7) \div 8

Zeros(n) == [i \in 1..n |-> 0]

Head_copy_from_slice(len, int_bytes) ==
    IF len < Len(int_bytes)
    THEN Panic(<<"slice index">>)
    ELSE Ok(int_bytes \o Zeros(len - Len(int_bytes)))

\* vec![0; total_len], then total_bytes[total_len - int_len..]
\*     .copy_from_slice(&int_bytes)
\* total_len - int_len on usize: below zero it panics (overflow check) or
\* wraps to a start past the end, and the slice index panics.
copy_from_slice(len, int_bytes) ==
    IF len < Len(int_bytes)
    THEN Panic(<<"slice index">>)
    ELSE Ok(Zeros(len - Len(int_bytes)) \o int_bytes)

\* The final byte slice from the leading zero bits and the big integer.
assemble(lz_bits, int) ==
    copy_from_slice(total_len(lz_bits + bits(int)), to_bytes_be(int))

(***************************************************************************)
(* The encoders, each a function of the token text `raw`.                  *)
(***************************************************************************)
SignStripped_bytes(raw) ==
    LET l == ParseLitInt(raw)
        int == BigUintFromStr(l.base10)
        normalized == replace(raw, {"-", "_"})
        f == form_of(normalized)
        lz == leading_zero_bits(f)
    IN  IF ~l.ok THEN Err(NotAnInteger)
        ELSE IF ~lz.ok THEN Err(LeadingZerosUnsupported(f.form))
        ELSE IF ~int.ok THEN Err(NegativeUnsupported)
        ELSE assemble(lz.bits, int.int)

\* bytes.rs: the sign is refused first, by the big integer conversion.
bytes(raw) ==
    LET l == ParseLitInt(raw)
        int == BigUintFromStr(l.base10)
        normalized == replace(raw, {"_"})
        f == form_of(normalized)
        lz == leading_zero_bits(f)
    IN  IF ~l.ok THEN Err(NotAnInteger)
        ELSE IF ~int.ok THEN Err(NegativeUnsupported)
        ELSE IF ~lz.ok THEN Err(LeadingZerosUnsupported(f.form))
        ELSE assemble(lz.bits, int.int)

\* lib.rs: the sign is stripped with the separators, the leading zeros are
\* judged, and only then is the big integer converted, under expect.
bytes2(raw) ==
    LET l == ParseLitInt(raw)
        normalized == replace(raw, {"-", "_"})
        f == form_of(normalized)
        lz == leading_zero_bits(f)
        int == BigUintFromStr(l.base10)
    IN  IF ~l.ok THEN Err(NotAnInteger)
        ELSE IF ~lz.ok THEN Err(LeadingZerosUnsupported(f.form))
        ELSE IF ~int.ok THEN Panic(<<"valid integer">>)
        ELSE assemble(lz.bits, int.int)

Unrestricted_bytesmin(raw) ==
    LET l == ParseLitInt(raw)
        int == BigUintFromStr(l.base10)
    IN  IF ~l.ok THEN Err(NotAnInteger)
        ELSE IF ~int.ok THEN Err(NegativeUnsupported)
        ELSE Ok(to_bytes_be(int.int))

\* bytesmin.rs: the form check on the normalized text, then the minimal
\* bytes of the value.
bytesmin(raw) ==
    LET l == ParseLitInt(raw)
        normalized == replace(raw, {"_"})
        b0 == IF Len(normalized) >= 1 THEN normalized[1] ELSE ""
        b1 == IF Len(normalized) >= 2 THEN normalized[2] ELSE ""
        int == BigUintFromStr(l.base10)
    IN  IF ~l.ok THEN Err(NotAnInteger)
        ELSE IF ~(b0 = "0" /\ b1 \in {"x", "b"}) THEN Err(UnsupportedForm)
        ELSE IF ~int.ok THEN Panic(<<"valid hex or binary literal">>)
        ELSE Ok(to_bytes_be(int.int))

(***************************************************************************)
(* The state machine: an input literal, then one encoder call on it.       *)
(***************************************************************************)
NoOutput == [kind |-> "none", bytes |-> <<>>, msg |-> <<>>]

Init ==
    /\ lit \in Literals
    /\ called = "none"
    /\ out = NoOutput

CallBytes ==
    /\ called = "none"
    /\ called' = "bytes"
    /\ out' = bytes(Render(lit))
    /\ UNCHANGED lit

CallBytes2 ==
    /\ called = "none"
    /\ called' = "bytes2"
    /\ out' = bytes2(Render(lit))
    /\ UNCHANGED lit

CallBytesmin ==
    /\ called = "none"
    /\ called' = "bytesmin"
    /\ out' = bytesmin(Render(lit))
    /\ UNCHANGED lit

Next == CallBytes \/ CallBytes2 \/ CallBytesmin

Spec == Init /\ [][Next]_vars

(***************************************************************************)
(* Vocabulary of the properties, taken from the literal's lexical          *)
(* structure and from arithmetic, independently of the encoders' steps.    *)
(***************************************************************************)
RECURSIVE DigitsValue(_, _, _)
DigitsValue(ds, radix, acc) ==
    IF ds = <<>> THEN acc
    ELSE DigitsValue(Tail(ds), radix, acc * radix + DigitValue(Head(ds)))

\* The value the literal denotes.
LitValue == DigitsValue(lit.digits, Radix(lit.form), 0)

\* The number of consecutive '0' digits at the start of the digit body.
LeadingZeroDigits ==
    IF \A i \in 1..Len(lit.digits) : lit.digits[i] = "0"
    THEN Len(lit.digits)
    ELSE (CHOOSE i \in 1..Len(lit.digits) :
              /\ lit.digits[i] # "0"
              /\ \A j \in 1..(i - 1) : lit.digits[j] = "0") - 1

BitsPerDigit == IF lit.form = "hex" THEN 4 ELSE 1

\* The least k with n < 2^k: 0 for zero.
BitLength(n) == CHOOSE k \in 0..64 : n < 2 ^ k /\ (k = 0 \/ n >= 2 ^ (k - 1))

CeilDiv(a, b) == (a + b - 1) \div b

\* The minimal byte length of a value, zero having length 0.
MinLen(n) == CeilDiv(BitLength(n), 8)

RECURSIVE Decode(_, _)
Decode(bs, acc) ==
    IF bs = <<>> THEN acc ELSE Decode(Tail(bs), acc * 256 + Head(bs))

\* The big-endian unsigned decoding of a byte sequence.
DecodeBE(bs) == Decode(bs, 0)

IsBytes(bs) == \A i \in 1..Len(bs) : bs[i] \in 0..255

HexOrBinary == lit.form \in {"hex", "binary"}

DecimalOrOctal == lit.form \in {"decimal", "octal"}

(***************************************************************************)
(* C1: for every non-negative hex or binary literal of value n, bytesmin   *)
(* returns bytes whose big-endian decoding is n, whose first byte is       *)
(* non-zero when n > 0, and which are the single byte [0] when n = 0; the  *)
(* length is max(1, ceil(bit_length(n) / 8)).                              *)
(***************************************************************************)
C1_BytesminMinimalRoundTrip ==
    (called = "bytesmin" /\ HexOrBinary /\ ~lit.neg) =>
        /\ out.kind = "ok"
        /\ IsBytes(out.bytes)
        /\ DecodeBE(out.bytes) = LitValue
        /\ (LitValue > 0 => out.bytes[1] # 0)
        /\ (LitValue = 0 => out.bytes = <<0>>)
        /\ Len(out.bytes) = IF LitValue = 0 THEN 1 ELSE MinLen(LitValue)

\* A hex literal with a leading zero digit whose value needs two bytes.
C1_Witness ==
    /\ called = "bytesmin" /\ lit.form = "hex" /\ ~lit.neg
    /\ LeadingZeroDigits >= 1
    /\ out.kind = "ok" /\ Len(out.bytes) = 2

C3_ExactWidthLength ==
    (called = "bytes" /\ HexOrBinary /\ ~lit.neg) =>
        /\ out.kind = "ok"
        /\ Len(out.bytes) =
               CeilDiv(LeadingZeroDigits * BitsPerDigit + BitLength(LitValue), 8)

\* 0b000000001: eight leading zero bits and one value bit make two bytes.
C3_Witness ==
    /\ called = "bytes" /\ lit.form = "binary" /\ ~lit.neg
    /\ LeadingZeroDigits = 8 /\ LitValue = 1
    /\ out.kind = "ok" /\ Len(out.bytes) = 2

(***************************************************************************)
(* C4 as stated: for every non-negative hex or binary literal, the number  *)
(* of zero bytes bytes puts in front of the value's minimal bytes (output  *)
(* length minus the value's minimal length, zero having minimal length 0)  *)
(* equals floor(leading_zero_digits * bits_per_digit / 8).                 *)
(***************************************************************************)
C4_PaddingIsFloor ==
    (called = "bytes" /\ HexOrBinary /\ ~lit.neg /\ out.kind = "ok") =>
        Len(out.bytes) - MinLen(LitValue) =
            (LeadingZeroDigits * BitsPerDigit) \div 8

(***************************************************************************)
(* C4 amended: the number of zero bytes in front of the value's minimal    *)
(* bytes is floor(leading_zero_bits / 8), plus one when the remaining      *)
(* leading_zero_bits mod 8 bits exceed the unused high bits of the value's *)
(* first byte (8 * minimal length - bit length); so it lies between the    *)
(* leading zero bits rounded down and rounded up to whole bytes.           *)
(***************************************************************************)
C4_PaddingFloorOrOneMore ==
    (called = "bytes" /\ HexOrBinary /\ ~lit.neg) =>
        LET lzb == LeadingZeroDigits * BitsPerDigit
            unused == 8 * MinLen(LitValue) - BitLength(LitValue)
            pad == Len(out.bytes) - MinLen(LitValue)
        IN  /\ out.kind = "ok"
            /\ pad = (lzb \div 8) + (IF lzb % 8 > unused THEN 1 ELSE 0)
            /\ lzb \div 8 <= pad
            /\ pad <= CeilDiv(lzb, 8)

\* 0x01f: four leading zero bits and a five-bit value give [0, 31], one
\* zero byte where four bits round down to none.
C4_Witness ==
    /\ called = "bytes" /\ lit.form = "hex" /\ ~lit.neg
    /\ lit.digits = <<"0", "1", "f">>
    /\ out.kind = "ok" /\ out.bytes = <<0, 31>>

(***************************************************************************)
(* C5: under bytes the length of the output for a non-negative hex or      *)
(* binary literal depends on its digit count d alone (separators and       *)
(* suffix not counted): it is ceil(d * bits_per_digit / 8), whatever the   *)
(* digits, all-zero digits included.                                       *)
(***************************************************************************)
C5_LengthFromDigitCount ==
    (called = "bytes" /\ HexOrBinary /\ ~lit.neg) =>
        /\ out.kind = "ok"
        /\ Len(out.bytes) = CeilDiv(Len(lit.digits) * BitsPerDigit, 8)

\* 0x000, with separators and a suffix: three digits, two zero bytes.
C5_Witness ==
    /\ called = "bytes" /\ lit.form = "hex" /\ ~lit.neg
    /\ lit.digits = <<"0", "0", "0">>
    /\ lit.sep = "between" /\ lit.suffix = <<"u", "8">>
    /\ out.kind = "ok" /\ out.bytes = <<0, 0>>

(***************************************************************************)
(* C6: every literal with a leading minus sign, in any base, with or       *)
(* without leading zero digits, makes each of bytes, bytes2 and bytesmin   *)
(* return an error value, never a byte array.                              *)
(***************************************************************************)
C6_NegativeReturnsError ==
    (lit.neg /\ called # "none") => out.kind = "err"

(***************************************************************************)
(* C7 as stated: a literal with a leading minus sign fails with the error  *)
(* NegativeUnsupported under exact-width bytes and under restricted        *)
(* minimal-width bytesmin alike, whatever else is wrong with it.           *)
(***************************************************************************)
C7_NegativeKindEverywhere ==
    (lit.neg /\ called \in {"bytes", "bytesmin"}) =>
        out = Err(NegativeUnsupported)

(***************************************************************************)
(* C7 amended: under bytes (bytes.rs) a literal with a leading minus sign  *)
(* fails with NegativeUnsupported whatever else is wrong with it (leading  *)
(* zeros in decimal or octal included); under bytesmin it fails with       *)
(* UnsupportedForm, the form check seeing the sign first.                  *)
(***************************************************************************)
C7_NegativeKindPerEncoder ==
    /\ (lit.neg /\ called = "bytes") => out = Err(NegativeUnsupported)
    /\ (lit.neg /\ called = "bytesmin") => out = Err(UnsupportedForm)

\* A negative octal literal with a leading zero digit, such as -0o0377,
\* refused by bytes for its sign.
C7_Witness ==
    /\ lit.neg /\ lit.form = "octal" /\ LeadingZeroDigits >= 1 /\ LitValue > 0
    /\ called = "bytes" /\ out = Err(NegativeUnsupported)

(***************************************************************************)
(* C8: under bytes a non-negative decimal or octal literal is refused with *)
(* the leading-zeros error naming its own base when its digit body starts  *)
(* with one or more zero digits, and is otherwise encoded as the minimal   *)
(* big-endian bytes of its value; nothing else happens to it.              *)
(***************************************************************************)
C8_DecimalOctalZeroPaddingOnly ==
    (called = "bytes" /\ DecimalOrOctal /\ ~lit.neg) =>
        IF LeadingZeroDigits > 0
        THEN out = Err(LeadingZerosUnsupported(lit.form))
        ELSE /\ out.kind = "ok"
             /\ Len(out.bytes) = MinLen(LitValue)
             /\ DecodeBE(out.bytes) = LitValue

(***************************************************************************)
(* C9: every non-negative literal of value zero, in every base, is encoded *)
(* by bytes as a non-empty all-zero byte array, the single byte [0] when   *)
(* it is spelt with one digit; never an empty array and never an error.    *)
(***************************************************************************)
C9_ZeroAlwaysEncodable ==
    (called = "bytes" /\ ~lit.neg /\ LitValue = 0) =>
        /\ out.kind = "ok"
        /\ Len(out.bytes) >= 1
        /\ \A i \in 1..Len(out.bytes) : out.bytes[i] = 0
        /\ (Len(lit.digits) = 1 => out.bytes = <<0>>)

(***************************************************************************)
(* C10: bytesmin refuses every non-negative decimal or octal literal with  *)
(* UnsupportedForm, whatever its value, leading zeros, separators or       *)
(* suffix, and accepts every non-negative hex or binary literal.           *)
(***************************************************************************)
C10_BytesminFormCheck ==
    (called = "bytesmin" /\ ~lit.neg) =>
        /\ DecimalOrOctal => out = Err(UnsupportedForm)
        /\ HexOrBinary => out.kind = "ok"

(***************************************************************************)
(* Vocabulary for the properties that relate two calls.                    *)
(***************************************************************************)
\* The encoder a call names, applied to a token text.
Encode(name, raw) ==
    CASE name = "bytes" -> bytes(raw)
      [] name = "bytes2" -> bytes2(raw)
      [] OTHER -> bytesmin(raw)

\* What a caller sees of an outcome: whether it is an array, an error or
\* an abort, the bytes, and the error's kind (the message less the form).
Outcome(o) == <<o.kind, o.bytes, IF o.msg = <<>> THEN "" ELSE Head(o.msg)>>

\* The same literal spelt without separators and without a suffix.
Plain(l) == [l EXCEPT !.sep = "none", !.suffix = <<>>]

(***************************************************************************)
(* C11: for every valid integer literal (any base, sign, separators and    *)
(* suffix) each of bytes, bytes2 and bytesmin returns a byte array or an   *)
(* error value: no expect fires and the slice index is never out of range. *)
(***************************************************************************)
C11_EncodersNeverAbort ==
    called # "none" => out.kind \in {"ok", "err"}

(***************************************************************************)
(* C12: the outcome of a call (the byte array, or the error kind) does not *)
(* depend on the `_` separators or on the suffix: it is the outcome of the *)
(* same encoder on the same literal spelt without them.                    *)
(***************************************************************************)
C12_SeparatorsAndSuffixIgnored ==
    called # "none" =>
        Outcome(out) = Outcome(Encode(called, Render(Plain(lit))))

C14_BytesIsPaddedBytesmin ==
    (called = "bytes" /\ HexOrBinary /\ ~lit.neg) =>
        LET min == bytesmin(Render(lit))
            n == Len(out.bytes)
            m == Len(min.bytes)
        IN  /\ out.kind = "ok" /\ min.kind = "ok"
            /\ m >= 1 /\ m <= n
            /\ SubSeq(out.bytes, n - m + 1, n) = min.bytes
            /\ \A i \in 1..(n - m) : out.bytes[i] = 0
            /\ (m > 1 => min.bytes[1] # 0)
            /\ (LeadingZeroDigits = 0 => out.bytes = min.bytes)

\* 0x0001: bytes gives [0, 1], bytesmin gives [1].
C14_Witness ==
    /\ called = "bytes" /\ lit.form = "hex" /\ ~lit.neg
    /\ lit.digits = <<"0", "0", "0", "1">>
    /\ out = Ok(<<0, 1>>)
    /\ bytesmin(Render(lit)) = Ok(<<1>>)

(***************************************************************************)
(* C15: bytes2 (lib.rs) and bytes (bytes.rs) are the same function: on     *)
(* every integer literal, negative ones and negative ones with leading     *)
(* zero digits included, they give the same byte array or an error of the  *)
(* same kind.                                                              *)
(***************************************************************************)
C15_Bytes2EqualsBytes ==
    called = "bytes2" => Outcome(out) = Outcome(bytes(Render(lit)))

====
